---- MODULE Spec2Model ----
(***************************************************************************)
(* Booking-capacity, bundle-credit and membership-freeze subsystem of       *)
(* smart_football_center (Django REST).                                    *)
(*                                                                         *)
(* The database is the shared state.  No handler opens a transaction and   *)
(* settings.py sets no ATOMIC_REQUESTS, so every ORM call (a SELECT, an    *)
(* INSERT, an UPDATE, a DELETE) commits on its own: each ORM call of a     *)
(* handler is one step of the model, and the steps of concurrent requests  *)
(* interleave.  A model instance fetched by a request is a private copy of *)
(* the row as it was when it was read; Model.save() writes every field of  *)
(* that copy back.                                                         *)
(***************************************************************************)
EXTENDS Integers, FiniteSets, TLC

\* ---- bounds of the model
MaxPlayers == 2     \* players
MaxSessions == 1    \* sessions ever created
MaxBookings == 2    \* bookings ever created
MaxReq == 2         \* requests in flight at once
MaxTime == 1        \* last instant of the clock
MaxCap == 2         \* largest capacity a request asks for
MaxAdmin == 1       \* session updates, booking updates and deletions in a run
RaceN == 3          \* concurrent create_booking requests of the race
MaxIncl == 2        \* largest sessions_included of a bundle
MaxDay == 1         \* last day of the clock of the bundle and membership endpoints
DayLength == 2      \* instants of the clock in a day
MaxCodeLen == 1     \* longest discount code, in characters
MaxDiscounts == 2   \* discounts ever created
MaxAmount == 2      \* largest total_amount of a request, in cents

\* ---- program constants
MinCapacity == 1
MaxCapacity == 100
FreezeLimit == 3
MaxPercent == 100

Players == 1..MaxPlayers
SessionIds == 1..MaxSessions
BookingIds == 1..MaxBookings
Reqs == 1..MaxReq

VARIABLES
    now,          \* timezone.now()
    users,        \* ids of the User rows
    sessions,     \* Session table: id -> row
    bookings,     \* Booking table: set of rows
    nextSession,  \* next auto-increment id of Session
    nextBooking,  \* next auto-increment id of Booking
    admin,        \* updates and deletions so far
    req,          \* the requests in flight: slot -> handler position and locals
    bundles,      \* Bundle table: id -> row
    memberships,  \* Membership table: id -> row
    ops,          \* the bundle and membership requests in flight: slot -> position and locals
    granted,      \* observer: freeze requests answered with success so far
    trail,        \* observer: what a sequential client has seen of its own requests
    discounts,    \* Discount table: set of rows, code unique
    applied,      \* the last request to /discounts/apply/ and its response
    callers       \* request.user of the booking requests in flight: slot -> user id

vars == <<now, users, sessions, bookings, nextSession, nextBooking, admin, req,
          bundles, memberships, ops, granted, trail, discounts, applied, callers>>

\* the tables of the booking endpoints, of the bundle and membership endpoints
booked == <<users, sessions, bookings, nextSession, nextBooking, admin, req>>
ledger == <<bundles, memberships, ops, granted>>
counter == <<discounts, applied>>

\* ---- rows
Session(cap, spots, date) ==
    [capacity |-> cap, spots_left |-> spots, date |-> date, coach |-> 0]
Booking(id, player, sid) ==
    [id |-> id, player |-> player, session |-> sid, status |-> "confirmed"]

NoRow == Session(0, 0, 0)
Idle == [kind |-> "idle", pc |-> "idle", player |-> 0, sid |-> 0, bid |-> 0,
         loc |-> NoRow, err |-> "none"]
\* the response of a finished request
Done(kind, err) == [Idle EXCEPT !.kind = kind, !.pc = "done", !.err = err]

\* Model.save(): UPDATE ... WHERE id = pk of every field; INSERT when no row matched
Save(tbl, id, row) == [k \in DOMAIN tbl \cup {id} |-> IF k = id THEN row ELSE tbl[k]]
\* Model.delete() of one row
Remove(tbl, id) == [k \in DOMAIN tbl \ {id} |-> tbl[k]]

BookingsOf(sid) == {b \in bookings : b.session = sid}

Bundle(included, used, expiry) ==
    [sessions_included |-> included, sessions_used |-> used, expiry_date |-> expiry]
Membership(active, count) == [active |-> active, freeze_count |-> count]

\* no bundle, no membership and no request for one
NoLedger == bundles = << >> /\ memberships = << >> /\ ops = << >> /\ granted = 0
\* the sequential client has seen nothing yet
NoTrail == [rt |-> [phase |-> "off", sid |-> 0, bid |-> 0, spots |-> 0, rows |-> {}],
            scn |-> [step |-> 0, sid |-> 0, bid |-> 0, a |-> 0, b |-> 0]]
\* Python numbers: a type and the exact value num/den
Decimal(cents) == [type |-> "Decimal", num |-> cents, den |-> 100]
\* no discount, no request to apply one, no caller on record
NoQuote == [code |-> << >>, amount |-> 0, errors |-> {}, raised |-> "none",
            discount_amount |-> Decimal(0), final_amount |-> Decimal(0)]
Closed == discounts = {} /\ applied = NoQuote /\ callers = << >>
\* a request of the booking endpoints leaves the other tables alone
Apart == UNCHANGED <<ledger, trail, counter, callers>>

Init ==
    /\ now = 0
    /\ users = Players
    /\ sessions = << >>
    /\ bookings = {}
    /\ nextSession = 1
    /\ nextBooking = 1
    /\ admin = 0
    /\ req = [r \in Reqs |-> Idle]
    /\ NoLedger
    /\ trail = NoTrail
    /\ Closed

Max(a, b) == IF a >= b THEN a ELSE b

\* a slot is free before its first request and after each response
Free(r) == req[r].pc \in {"idle", "done"}

\* ---- Session endpoints (SessionViewSet)

\* validate_capacity of SessionCreateSerializer
ValidCapacity(value) == ~(value < MinCapacity \/ value > MaxCapacity)
\* validate_date of SessionCreateSerializer
ValidDate(value) == ~(value < now)

\* POST /sessions/ without coach_id: SessionCreateSerializer.create
SessionCreate(cap, date) ==
    /\ nextSession <= MaxSessions
    /\ ValidCapacity(cap)
    /\ ValidDate(date)
    /\ sessions' = Save(sessions, nextSession, Session(cap, cap, date))
    /\ nextSession' = nextSession + 1
    /\ UNCHANGED <<now, users, bookings, nextBooking, admin, req>>

\* PUT/PATCH /sessions/<id>/ arrives; get_object() reads the row
SessionUpdateFetch(r, sid) ==
    /\ Free(r)
    /\ admin < MaxAdmin
    /\ admin' = admin + 1
    /\ req' = [req EXCEPT ![r] =
         IF sid \in DOMAIN sessions
         THEN [Idle EXCEPT !.kind = "supdate", !.pc = "save", !.sid = sid,
                           !.loc = sessions[sid]]
         ELSE Done("supdate", "NotFound")]
    /\ UNCHANGED <<now, users, sessions, bookings, nextSession, nextBooking>>

\* the row SessionSerializer writes: capacity and date are writable, spots_left
\* is read-only and keeps the value of the fetched instance
SessionUpdated(row, cap, date) == [row EXCEPT !.capacity = cap, !.date = date]

\* serializer.save() of the update: instance.save()
SessionUpdateSave(r, cap, date) ==
    /\ req[r].kind = "supdate" /\ req[r].pc = "save"
    /\ sessions' = Save(sessions, req[r].sid, SessionUpdated(req[r].loc, cap, date))
    /\ req' = [req EXCEPT ![r] = Done("supdate", "ok")]
    /\ UNCHANGED <<now, users, bookings, nextSession, nextBooking, admin>>

\* DELETE /sessions/<id>/: the bookings of the session cascade away
SessionDelete(sid) ==
    /\ admin < MaxAdmin
    /\ admin' = admin + 1
    /\ sid \in DOMAIN sessions
    /\ sessions' = Remove(sessions, sid)
    /\ bookings' = bookings \ BookingsOf(sid)
    /\ UNCHANGED <<now, users, nextSession, nextBooking, req>>

\* DELETE /users/<id>/: the bookings of the player cascade away
UserDelete(p) ==
    /\ admin < MaxAdmin
    /\ admin' = admin + 1
    /\ p \in users
    /\ users' = users \ {p}
    /\ bookings' = {b \in bookings : b.player # p}
    /\ UNCHANGED <<now, sessions, nextSession, nextBooking, req>>

\* ---- create_booking (BookingCreateSerializer behind book_session / create)

\* a fullness check that lets a session with exactly 0 spots through
IsFullBelowZero(loc) == loc.spots_left < 0
\* a duplicate check that looks at the player's bookings on the other sessions
AlreadyBookedElsewhere(player, sid) == \E b \in bookings : b.player = player /\ b.session # sid
\* a date check that also rejects a session dated exactly now
IsPastOrNow(loc) == loc.date <= now

\* "Check if session has available spots", on the fetched instance
IsFull(loc) == loc.spots_left <= 0
\* "Check if player already booked this session", a query
AlreadyBooked(player, sid) == \E b \in bookings : b.player = player /\ b.session = sid
\* "Check if session is in the future", on the fetched instance
IsPast(loc) == loc.date < now

\* a validate() that looks at the date first and at the spots last
ValidateBookingPastFirst(loc, player, sid) ==
    IF IsPast(loc) THEN "PastSession"
    ELSE IF AlreadyBooked(player, sid) THEN "DuplicateBooking"
    ELSE IF IsFull(loc) THEN "SessionFull"
    ELSE "ok"

\* BookingCreateSerializer.validate: the first failing check, in the code's order
ValidateBooking(loc, player, sid) ==
    IF IsFull(loc) THEN "SessionFull"
    ELSE IF AlreadyBooked(player, sid) THEN "DuplicateBooking"
    ELSE IF IsPast(loc) THEN "PastSession"
    ELSE "ok"

\* the row create() writes back
Reserved(loc) == [loc EXCEPT !.spots_left = Max(0, loc.spots_left - 1)]
ReleasedNothing(loc) == loc
\* the row destroy() writes back
Released(loc) == [loc EXCEPT !.spots_left = loc.spots_left + 1]

\* the request arrives; is_valid() resolves the player and session keys to rows
BookFetch(r, p, sid) ==
    /\ Free(r)
    /\ req' = [req EXCEPT ![r] =
         IF p \in users /\ sid \in DOMAIN sessions
         THEN [Idle EXCEPT !.kind = "book", !.pc = "validate", !.player = p,
                           !.sid = sid, !.loc = sessions[sid]]
         ELSE Done("book", "NotFound")]
    /\ UNCHANGED <<now, users, sessions, bookings, nextSession, nextBooking, admin>>

\* is_valid() runs validate()
BookValidate(r) ==
    /\ req[r].kind = "book" /\ req[r].pc = "validate"
    /\ LET e == ValidateBooking(req[r].loc, req[r].player, req[r].sid)
       IN req' = [req EXCEPT ![r] =
            IF e = "ok" THEN [req[r] EXCEPT !.pc = "insert"] ELSE Done("book", e)]
    /\ UNCHANGED <<now, users, sessions, bookings, nextSession, nextBooking, admin>>

\* create(): Booking.objects.create(**validated_data); the foreign keys must
\* still point at rows
BookInsert(r) ==
    /\ req[r].kind = "book" /\ req[r].pc = "insert"
    /\ IF req[r].player \in users /\ req[r].sid \in DOMAIN sessions
       THEN /\ bookings' = bookings \cup {Booking(nextBooking, req[r].player, req[r].sid)}
            /\ nextBooking' = nextBooking + 1
            /\ req' = [req EXCEPT ![r].pc = "save"]
       ELSE /\ req' = [req EXCEPT ![r] = Done("book", "IntegrityError")]
            /\ UNCHANGED <<bookings, nextBooking>>
    /\ UNCHANGED <<now, users, sessions, nextSession, admin>>

\* create(): session.spots_left = max(0, session.spots_left - 1); session.save()
BookSave(r) ==
    /\ req[r].kind = "book" /\ req[r].pc = "save"
    /\ sessions' = Save(sessions, req[r].sid, Reserved(req[r].loc))
    /\ req' = [req EXCEPT ![r] = Done("book", "ok")]
    /\ UNCHANGED <<now, users, bookings, nextSession, nextBooking, admin>>

\* ---- cancel_booking (BookingViewSet.destroy)

\* the request arrives; get_object() reads the booking joined with its session
CancelFetch(r, bid) ==
    /\ Free(r)
    /\ req' = [req EXCEPT ![r] =
         IF \E b \in bookings : b.id = bid
         THEN LET b == CHOOSE x \in bookings : x.id = bid
              IN [Idle EXCEPT !.kind = "cancel", !.pc = "save", !.bid = bid,
                              !.sid = b.session, !.loc = sessions[b.session]]
         ELSE Done("cancel", "NotFound")]
    /\ UNCHANGED <<now, users, sessions, bookings, nextSession, nextBooking, admin>>

\* session.spots_left += 1; session.save()
CancelSave(r) ==
    /\ req[r].kind = "cancel" /\ req[r].pc = "save"
    /\ sessions' = Save(sessions, req[r].sid, Released(req[r].loc))
    /\ req' = [req EXCEPT ![r].pc = "delete"]
    /\ UNCHANGED <<now, users, bookings, nextSession, nextBooking, admin>>

\* self.perform_destroy(booking)
CancelDelete(r) ==
    /\ req[r].kind = "cancel" /\ req[r].pc = "delete"
    /\ bookings' = {b \in bookings : b.id # req[r].bid}
    /\ req' = [req EXCEPT ![r] = Done("cancel", "ok")]
    /\ UNCHANGED <<now, users, sessions, nextSession, nextBooking, admin>>

\* ---- booking update (BookingSerializer behind update / partial_update)

\* PUT/PATCH /bookings/<id>/ arrives; get_object() reads the row
BookingUpdateFetch(r, bid) ==
    /\ Free(r)
    /\ admin < MaxAdmin
    /\ admin' = admin + 1
    /\ req' = [req EXCEPT ![r] =
         IF \E b \in bookings : b.id = bid
         THEN [Idle EXCEPT !.kind = "bupdate", !.pc = "save", !.bid = bid]
         ELSE Done("bupdate", "NotFound")]
    /\ UNCHANGED <<now, users, sessions, bookings, nextSession, nextBooking>>

\* is_valid() resolves the keys, no validate(); serializer.save(): player and
\* session are writable
BookingUpdateSave(r, p, sid) ==
    /\ req[r].kind = "bupdate" /\ req[r].pc = "save"
    /\ IF p \in users /\ sid \in DOMAIN sessions
       THEN /\ bookings' = {b \in bookings : b.id # req[r].bid}
                              \cup {Booking(req[r].bid, p, sid)}
            /\ req' = [req EXCEPT ![r] = Done("bupdate", "ok")]
       ELSE /\ req' = [req EXCEPT ![r] = Done("bupdate", "NotFound")]
            /\ UNCHANGED bookings
    /\ UNCHANGED <<now, users, sessions, nextSession, nextBooking, admin>>

\* the clock advances
Tick ==
    /\ now < MaxTime
    /\ now' = now + 1
    /\ UNCHANGED <<users, sessions, bookings, nextSession, nextBooking, admin, req>>

\* ---- the server: requests arrive in the lowest free slot, and a booking
\* request is admitted while booking ids remain
Lowest(r) == \A q \in DOMAIN req : q < r => ~Free(q)
Inserting == {r \in DOMAIN req : req[r].kind = "book" /\ req[r].pc \in {"validate", "insert"}}
Admit == nextBooking + Cardinality(Inserting) <= MaxBookings

Next ==
    \/ Tick /\ Apart
    \/ \E cap \in 0..MaxCap, date \in 0..MaxTime : SessionCreate(cap, date) /\ Apart
    \/ \E r \in DOMAIN req, sid \in SessionIds :
          Lowest(r) /\ SessionUpdateFetch(r, sid) /\ Apart
    \/ \E r \in DOMAIN req, cap \in 0..MaxCap, date \in 0..MaxTime :
          SessionUpdateSave(r, cap, date) /\ Apart
    \/ \E sid \in SessionIds : SessionDelete(sid) /\ Apart
    \/ \E p \in Players : UserDelete(p) /\ Apart
    \/ \E r \in DOMAIN req, p \in Players, sid \in SessionIds :
          Lowest(r) /\ Admit /\ BookFetch(r, p, sid) /\ Apart
    \/ \E r \in DOMAIN req : BookValidate(r) /\ Apart
    \/ \E r \in DOMAIN req : BookInsert(r) /\ Apart
    \/ \E r \in DOMAIN req : BookSave(r) /\ Apart
    \/ \E r \in DOMAIN req, bid \in BookingIds : Lowest(r) /\ CancelFetch(r, bid) /\ Apart
    \/ \E r \in DOMAIN req : CancelSave(r) /\ Apart
    \/ \E r \in DOMAIN req : CancelDelete(r) /\ Apart
    \/ \E r \in DOMAIN req, bid \in BookingIds :
          Lowest(r) /\ BookingUpdateFetch(r, bid) /\ Apart
    \/ \E r \in DOMAIN req, p \in Players, sid \in SessionIds :
          BookingUpdateSave(r, p, sid) /\ Apart

Spec == Init /\ [][Next]_vars

\* ---- the race for the last spots: RaceN players, one create_booking request
\* each, against one future session with every spot free
RaceSession == 1

RaceInit ==
    /\ now = 0
    /\ users = 1..RaceN
    /\ \E c \in 1..(RaceN - 1), date \in 0..MaxTime :
          sessions = Save(<< >>, RaceSession, Session(c, c, date))
    /\ bookings = {}
    /\ nextSession = RaceSession + 1
    /\ nextBooking = 1
    /\ admin = 0
    /\ req = [r \in 1..RaceN |-> Idle]
    /\ NoLedger
    /\ trail = NoTrail
    /\ Closed

RaceNext ==
    \/ \E r \in DOMAIN req : req[r].pc = "idle" /\ BookFetch(r, r, RaceSession) /\ Apart
    \/ \E r \in DOMAIN req : BookValidate(r) /\ Apart
    \/ \E r \in DOMAIN req : BookInsert(r) /\ Apart
    \/ \E r \in DOMAIN req : BookSave(r) /\ Apart

SpecRace == RaceInit /\ [][RaceNext]_vars

\* ---- a sequential run: one client, each request answered before the next
\* is sent.  The client notes in trail what it saw when it sent a request.
Client == 1

SeqInit ==
    /\ now = 0
    /\ users = Players
    /\ sessions = << >>
    /\ bookings = {}
    /\ nextSession = 1
    /\ nextBooking = 1
    /\ admin = 0
    /\ req = [r \in {Client} |-> Idle]
    /\ NoLedger
    /\ trail = NoTrail
    /\ Closed

\* the client's note when it sends create_booking(p, sid): the state before the
\* request, and how far the capacity-1 scenario (A books, B books, A cancels,
\* B books) has come
NoteBook(p, sid) ==
    LET s == trail.scn
        spots == IF sid \in DOMAIN sessions THEN sessions[sid].spots_left ELSE 0
        fresh == /\ sid \in DOMAIN sessions
                 /\ sessions[sid].capacity = 1 /\ sessions[sid].spots_left = 1
                 /\ BookingsOf(sid) = {}
    IN [rt |-> [phase |-> "create", sid |-> sid, bid |-> nextBooking,
                spots |-> spots, rows |-> bookings],
        scn |-> IF s.step = 1 /\ sid = s.sid /\ p # s.a
                THEN [s EXCEPT !.step = 2, !.b = p]
                ELSE IF s.step = 3 /\ sid = s.sid /\ p = s.b
                THEN [s EXCEPT !.step = 4]
                ELSE IF fresh
                THEN [step |-> 1, sid |-> sid, bid |-> nextBooking, a |-> p, b |-> 0]
                ELSE NoTrail.scn]

\* the client's note when it sends cancel_booking(bid)
NoteCancel(bid) ==
    [rt |-> IF trail.rt.phase = "create" /\ bid = trail.rt.bid
               /\ req[Client] = Done("book", "ok")
            THEN [trail.rt EXCEPT !.phase = "cancel"]
            ELSE NoTrail.rt,
     scn |-> IF trail.scn.step = 2 /\ bid = trail.scn.bid
             THEN [trail.scn EXCEPT !.step = 3]
             ELSE NoTrail.scn]

SeqNext ==
    \/ Tick /\ Apart
    \/ \E cap \in 0..MaxCap, date \in 0..MaxTime : SessionCreate(cap, date) /\ Apart
    \/ \E p \in Players, sid \in SessionIds :
          /\ Admit /\ BookFetch(Client, p, sid)
          /\ trail' = NoteBook(p, sid) /\ UNCHANGED <<ledger, counter, callers>>
    \/ BookValidate(Client) /\ Apart
    \/ BookInsert(Client) /\ Apart
    \/ BookSave(Client) /\ Apart
    \/ \E bid \in BookingIds :
          /\ CancelFetch(Client, bid)
          /\ trail' = NoteCancel(bid) /\ UNCHANGED <<ledger, counter, callers>>
    \/ CancelSave(Client) /\ Apart
    \/ CancelDelete(Client) /\ Apart

SpecSeq == SeqInit /\ [][SeqNext]_vars

\* ---- Bundle endpoints (BundleViewSet).  Requests for bundles and
\* memberships are held in ops; dates are days, the clock counts instants.
BundleId == 1
LastInstant == DayLength * (MaxDay + 1) - 1

\* timezone.now().date()
Today == now \div DayLength

NoBundle == Bundle(0, 0, 0)
Asleep(row) == [kind |-> "idle", pc |-> "idle", id |-> 0, loc |-> row, err |-> "none", out |-> 0]
\* the response of a finished request: error kind and returned counter
Answer(op, err, out) == [op EXCEPT !.pc = "done", !.err = err, !.out = out]
OpFree(r) == ops[r].pc \in {"idle", "done"}
First(r) == \A q \in DOMAIN ops : q < r => ~OpFree(q)

credits_used(b) == b.sessions_used
\* Bundle.credits_left()
credits_left(b) == b.sessions_included - b.sessions_used

ExpiredToday(loc) == loc.expiry_date <= Today
UsedTwice(loc) == [loc EXCEPT !.sessions_used = loc.sessions_used + 2]

\* the two checks of use_credit
NoCredits(loc) == credits_left(loc) <= 0
Expired(loc) == loc.expiry_date < Today

CheckCreditExpiryFirst(loc) ==
    IF Expired(loc) THEN "BundleExpired"
    ELSE IF NoCredits(loc) THEN "NoCreditsRemaining"
    ELSE "ok"

\* use_credit up to its write: the first failing check answers
CheckCredit(loc) ==
    IF NoCredits(loc) THEN "NoCreditsRemaining"
    ELSE IF Expired(loc) THEN "BundleExpired"
    ELSE "ok"

\* bundle.sessions_used += 1
Used(loc) == [loc EXCEPT !.sessions_used = loc.sessions_used + 1]

\* POST /bundles/<id>/use_credit/ arrives; get_object() reads the row
UseCreditFetch(r, id) ==
    /\ OpFree(r)
    /\ ops' = [ops EXCEPT ![r] =
         IF id \in DOMAIN bundles
         THEN [Asleep(bundles[id]) EXCEPT !.kind = "credit", !.pc = "check", !.id = id]
         ELSE Answer([Asleep(NoBundle) EXCEPT !.kind = "credit", !.id = id], "NotFound", 0)]
    /\ UNCHANGED <<now, bundles>>

\* the credits check, then the expiry check against today's date
UseCreditCheck(r) ==
    /\ ops[r].kind = "credit" /\ ops[r].pc = "check"
    /\ LET e == CheckCredit(ops[r].loc)
       IN ops' = [ops EXCEPT ![r] =
            IF e = "ok" THEN [ops[r] EXCEPT !.pc = "save"] ELSE Answer(ops[r], e, 0)]
    /\ UNCHANGED <<now, bundles>>

\* bundle.sessions_used += 1; bundle.save(); the response carries credits_left()
UseCreditSave(r) ==
    /\ ops[r].kind = "credit" /\ ops[r].pc = "save"
    /\ bundles' = Save(bundles, ops[r].id, Used(ops[r].loc))
    /\ ops' = [ops EXCEPT ![r] = Answer(ops[r], "ok", credits_left(Used(ops[r].loc)))]
    /\ UNCHANGED now

\* the clock of the bundle and membership endpoints
Pass ==
    /\ now < LastInstant
    /\ now' = now + 1

\* a bundle request leaves the booking tables and the memberships alone
Beside == UNCHANGED <<booked, memberships, granted, trail, counter, callers>>

\* one bundle that has not used more than it includes, and use_credit
\* requests only
BundleInit ==
    /\ now = 0
    /\ users = Players
    /\ sessions = << >>
    /\ bookings = {}
    /\ nextSession = 1
    /\ nextBooking = 1
    /\ admin = 0
    /\ req = [r \in Reqs |-> Idle]
    /\ \E incl \in 0..MaxIncl, used \in 0..MaxIncl, expiry \in -1..MaxDay :
          /\ used <= incl
          /\ bundles = Save(<< >>, BundleId, Bundle(incl, used, expiry))
    /\ memberships = << >>
    /\ ops = [r \in Reqs |-> Asleep(NoBundle)]
    /\ granted = 0
    /\ trail = NoTrail
    /\ Closed

BundleNext ==
    \/ Pass /\ UNCHANGED <<bundles, ops>> /\ Beside
    \/ \E r \in DOMAIN ops, id \in {BundleId, BundleId + 1} :
          First(r) /\ UseCreditFetch(r, id) /\ Beside
    \/ \E r \in DOMAIN ops : UseCreditCheck(r) /\ Beside
    \/ \E r \in DOMAIN ops : UseCreditSave(r) /\ Beside

SpecBundle == BundleInit /\ [][BundleNext]_vars

\* ---- bundle update (BundleSerializer behind update / partial_update)

\* PUT/PATCH /bundles/<id>/ arrives; get_object() reads the row
BundleUpdateFetch(r, id) ==
    /\ OpFree(r)
    /\ admin < MaxAdmin
    /\ admin' = admin + 1
    /\ ops' = [ops EXCEPT ![r] =
         IF id \in DOMAIN bundles
         THEN [Asleep(bundles[id]) EXCEPT !.kind = "update", !.pc = "save", !.id = id]
         ELSE Answer([Asleep(NoBundle) EXCEPT !.kind = "update", !.id = id], "NotFound", 0)]
    /\ UNCHANGED <<now, bundles>>

\* the row BundleSerializer writes: only id is read-only
BundleUpdated(row, incl, used, expiry) ==
    [row EXCEPT !.sessions_included = incl, !.sessions_used = used, !.expiry_date = expiry]

\* serializer.save() of the update: instance.save()
BundleUpdateSave(r, incl, used, expiry) ==
    /\ ops[r].kind = "update" /\ ops[r].pc = "save"
    /\ bundles' = Save(bundles, ops[r].id, BundleUpdated(ops[r].loc, incl, used, expiry))
    /\ ops' = [ops EXCEPT ![r] = Answer(ops[r], "ok", 0)]
    /\ UNCHANGED <<now, admin>>

\* a bundle request leaves the booking tables, but for the count of
\* administrative requests, and the memberships alone
Around ==
    UNCHANGED <<users, sessions, bookings, nextSession, nextBooking, req,
                memberships, granted, trail, counter, callers>>

\* use_credit requests and bundle updates
BundleAdminNext ==
    \/ Pass /\ UNCHANGED <<bundles, ops, admin>> /\ Around
    \/ \E r \in DOMAIN ops, id \in {BundleId, BundleId + 1} :
          First(r) /\ UseCreditFetch(r, id) /\ UNCHANGED admin /\ Around
    \/ \E r \in DOMAIN ops : UseCreditCheck(r) /\ UNCHANGED admin /\ Around
    \/ \E r \in DOMAIN ops : UseCreditSave(r) /\ UNCHANGED admin /\ Around
    \/ \E r \in DOMAIN ops, id \in {BundleId, BundleId + 1} :
          First(r) /\ BundleUpdateFetch(r, id) /\ Around
    \/ \E r \in DOMAIN ops, incl \in 0..MaxIncl, used \in 0..MaxIncl, expiry \in -1..MaxDay :
          BundleUpdateSave(r, incl, used, expiry) /\ Around

SpecBundleAdmin == BundleInit /\ [][BundleAdminNext]_vars

\* ---- the race for the last credits: RaceN use_credit requests at once on
\* one bundle that never expires in the run and has fewer credits than that
CreditInit ==
    /\ now = 0
    /\ users = Players
    /\ sessions = << >>
    /\ bookings = {}
    /\ nextSession = 1
    /\ nextBooking = 1
    /\ admin = 0
    /\ req = [r \in Reqs |-> Idle]
    /\ \E m \in 1..(RaceN - 1) : bundles = Save(<< >>, BundleId, Bundle(m, 0, MaxDay))
    /\ memberships = << >>
    /\ ops = [r \in 1..RaceN |-> Asleep(NoBundle)]
    /\ granted = 0
    /\ trail = NoTrail
    /\ Closed

CreditNext ==
    \/ \E r \in DOMAIN ops : ops[r].pc = "idle" /\ UseCreditFetch(r, BundleId) /\ Beside
    \/ \E r \in DOMAIN ops : UseCreditCheck(r) /\ Beside
    \/ \E r \in DOMAIN ops : UseCreditSave(r) /\ Beside

SpecCredit == CreditInit /\ [][CreditNext]_vars

\* ---- Membership endpoints (MembershipViewSet)
MemberId == 1
NoMembership == Membership(FALSE, 0)

AtLimitAbove(loc) == loc.freeze_count > FreezeLimit
FrozenOnce(loc) ==
    [loc EXCEPT !.active = FALSE,
                !.freeze_count = IF loc.active THEN loc.freeze_count + 1 ELSE loc.freeze_count]
ThawedRefund(loc) == [loc EXCEPT !.active = TRUE, !.freeze_count = Max(0, loc.freeze_count - 1)]

\* the check of freeze
AtLimit(loc) == loc.freeze_count >= FreezeLimit
\* membership.active = False; membership.freeze_count += 1
Frozen(loc) == [loc EXCEPT !.active = FALSE, !.freeze_count = loc.freeze_count + 1]
\* membership.active = True
Thawed(loc) == [loc EXCEPT !.active = TRUE]

\* POST /memberships/<id>/freeze/ arrives; get_object() reads the row
FreezeFetch(r, id) ==
    /\ OpFree(r)
    /\ ops' = [ops EXCEPT ![r] =
         IF id \in DOMAIN memberships
         THEN [Asleep(memberships[id]) EXCEPT !.kind = "freeze", !.pc = "check", !.id = id]
         ELSE Answer([Asleep(NoMembership) EXCEPT !.kind = "freeze", !.id = id],
                     "NotFound", 0)]
    /\ UNCHANGED <<now, memberships>>

\* the freeze limit check
FreezeCheck(r) ==
    /\ ops[r].kind = "freeze" /\ ops[r].pc = "check"
    /\ ops' = [ops EXCEPT ![r] =
         IF AtLimit(ops[r].loc) THEN Answer(ops[r], "FreezeLimitReached", 0)
         ELSE [ops[r] EXCEPT !.pc = "save"]]
    /\ UNCHANGED <<now, memberships>>

\* membership.save(); the response carries freeze_count
FreezeSave(r) ==
    /\ ops[r].kind = "freeze" /\ ops[r].pc = "save"
    /\ memberships' = Save(memberships, ops[r].id, Frozen(ops[r].loc))
    /\ ops' = [ops EXCEPT ![r] = Answer(ops[r], "ok", Frozen(ops[r].loc).freeze_count)]
    /\ UNCHANGED now

\* POST /memberships/<id>/unfreeze/ arrives; get_object() reads the row
UnfreezeFetch(r, id) ==
    /\ OpFree(r)
    /\ ops' = [ops EXCEPT ![r] =
         IF id \in DOMAIN memberships
         THEN [Asleep(memberships[id]) EXCEPT !.kind = "unfreeze", !.pc = "save", !.id = id]
         ELSE Answer([Asleep(NoMembership) EXCEPT !.kind = "unfreeze", !.id = id],
                     "NotFound", 0)]
    /\ UNCHANGED <<now, memberships>>

\* membership.active = True; membership.save()
UnfreezeSave(r) ==
    /\ ops[r].kind = "unfreeze" /\ ops[r].pc = "save"
    /\ memberships' = Save(memberships, ops[r].id, Thawed(ops[r].loc))
    /\ ops' = [ops EXCEPT ![r] = Answer(ops[r], "ok", 0)]
    /\ UNCHANGED now

\* a membership request leaves the booking tables and the bundles alone
Besides == UNCHANGED <<booked, bundles, trail, counter, callers>>
\* the observer counts one more successful freeze, up to one past the limit
Granted == granted' = IF granted > FreezeLimit THEN granted ELSE granted + 1

\* one membership created with freeze_count 0, and freeze and unfreeze
\* requests only
MemberInit ==
    /\ now = 0
    /\ users = Players
    /\ sessions = << >>
    /\ bookings = {}
    /\ nextSession = 1
    /\ nextBooking = 1
    /\ admin = 0
    /\ req = [r \in Reqs |-> Idle]
    /\ bundles = << >>
    /\ \E active \in BOOLEAN : memberships = Save(<< >>, MemberId, Membership(active, 0))
    /\ ops = [r \in Reqs |-> Asleep(NoMembership)]
    /\ granted = 0
    /\ trail = NoTrail
    /\ Closed

MemberNext ==
    \/ \E r \in DOMAIN ops, id \in {MemberId, MemberId + 1} :
          First(r) /\ FreezeFetch(r, id) /\ UNCHANGED granted /\ Besides
    \/ \E r \in DOMAIN ops : FreezeCheck(r) /\ UNCHANGED granted /\ Besides
    \/ \E r \in DOMAIN ops : FreezeSave(r) /\ Granted /\ Besides
    \/ \E r \in DOMAIN ops, id \in {MemberId, MemberId + 1} :
          First(r) /\ UnfreezeFetch(r, id) /\ UNCHANGED granted /\ Besides
    \/ \E r \in DOMAIN ops : UnfreezeSave(r) /\ UNCHANGED granted /\ Besides

SpecMember == MemberInit /\ [][MemberNext]_vars

\* ---- Discount endpoints (DiscountViewSet).  A code is a sequence of
\* characters; an amount is a Decimal with two places, given in cents.
Chars == {"a", "A", "b", "B"}
Codes == UNION {[1..n -> Chars] : n \in 1..MaxCodeLen}
Percents == {0, 10, MaxPercent, MaxPercent + 1}
Amounts == -1..MaxAmount

\* str.upper(), character by character
upper(ch) == CASE ch = "a" -> "A" [] ch = "b" -> "B" [] OTHER -> ch
Upper(code) == [i \in DOMAIN code |-> upper(code[i])]
\* the code__iexact lookup
IExact(stored, value) == Upper(stored) = Upper(value)

\* int / int is a float
TrueDiv(a, b) == [type |-> "float", num |-> a, den |-> b]
\* Decimal * x and Decimal - x: Decimal refuses a float operand
Times(x, y) ==
    IF x.type = "Decimal" /\ y.type = "float"
    THEN [type |-> "TypeError", num |-> 0, den |-> 1]
    ELSE [type |-> x.type, num |-> x.num * y.num, den |-> x.den * y.den]
Minus(x, y) ==
    IF x.type = "Decimal" /\ y.type = "float"
    THEN [type |-> "TypeError", num |-> 0, den |-> 1]
    ELSE [type |-> x.type, num |-> x.num * y.den - y.num * x.den, den |-> x.den * y.den]

\* POST /discounts/: validate_code, validate_percentage, then the insert
DiscountCreate(code, percentage, active) ==
    /\ Cardinality(discounts) < MaxDiscounts
    /\ ~\E d \in discounts : IExact(d.code, code)
    /\ ~(percentage < 0 \/ percentage > MaxPercent)
    /\ discounts' = discounts \cup
          {[code |-> Upper(code), percentage |-> percentage, active |-> active]}
    /\ UNCHANGED applied

\* validate_discount_code: Discount.objects.get(code__iexact=value, active=True)
Matching(code) == {d \in discounts : IExact(d.code, code) /\ d.active}
\* the field errors of ApplyDiscountSerializer
ApplyErrors(code, amount) ==
    (IF Cardinality(Matching(code)) = 0 THEN {"InvalidCode"} ELSE {})
        \cup (IF amount <= 0 THEN {"InvalidAmount"} ELSE {})

\* POST /discounts/apply/: is_valid() runs the field validators, then validate()
Apply(code, amount) ==
    /\ applied' =
         LET request == [NoQuote EXCEPT !.code = code, !.amount = amount]
         IN IF Cardinality(Matching(code)) > 1
            THEN [request EXCEPT !.raised = "MultipleObjectsReturned"]
            ELSE IF ApplyErrors(code, amount) # {}
            THEN [request EXCEPT !.errors = ApplyErrors(code, amount)]
            ELSE LET discount == CHOOSE d \in Matching(code) : TRUE
                     total_amount == Decimal(amount)
                     discount_amount == Times(total_amount, TrueDiv(discount.percentage, 100))
                     final_amount == Minus(total_amount, discount_amount)
                 IN IF discount_amount.type = "TypeError"
                    THEN [request EXCEPT !.raised = "TypeError"]
                    ELSE [request EXCEPT !.discount_amount = discount_amount,
                                         !.final_amount = final_amount]
    /\ UNCHANGED discounts

\* a discount request leaves every other table alone
Aside == UNCHANGED <<now, booked, ledger, trail, callers>>

DiscountNext ==
    \/ \E code \in Codes, percentage \in Percents, active \in BOOLEAN :
          DiscountCreate(code, percentage, active) /\ Aside
    \/ \E code \in Codes, amount \in Amounts : Apply(code, amount) /\ Aside

SpecDiscount == Init /\ [][DiscountNext]_vars

\* ---- who may do what: the booking endpoints with their callers.
\* The User rows: id -> role and is_staff
Accounts ==
    <<[role |-> "player", is_staff |-> FALSE],
      [role |-> "child", is_staff |-> FALSE],
      [role |-> "coach", is_staff |-> FALSE],
      [role |-> "admin", is_staff |-> FALSE],
      [role |-> "parent", is_staff |-> FALSE],
      [role |-> "parent", is_staff |-> TRUE]>>
Coaches == {u \in DOMAIN Accounts : Accounts[u].role = "coach"}
Statuses == {"confirmed", "cancelled"}

\* a queryset that shows every caller only the bookings they play in
VisibleOwnOnly(u) == {b \in bookings : b.player = u}
\* a queryset that shows every caller every booking
VisibleToAll(u) == bookings

\* BookingViewSet.get_queryset for request.user = u
Visible(u) ==
    IF Accounts[u].role = "admin" \/ Accounts[u].is_staff THEN bookings
    ELSE IF Accounts[u].role = "coach"
    THEN {b \in bookings : b.session \in DOMAIN sessions /\ sessions[b.session].coach = u}
    ELSE IF Accounts[u].role \in {"player", "child"} THEN {b \in bookings : b.player = u}
    ELSE {}

Calls(r, u) == callers' = [callers EXCEPT ![r] = u]

\* POST /bookings/book_session/ by u: data['player'] = request.user.id
BookAs(r, u, sid) == BookFetch(r, u, sid) /\ Calls(r, u)

\* POST /bookings/ by u: BookingCreateSerializer takes player from the request data
CreateAs(r, u, p, sid) == BookFetch(r, p, sid) /\ Calls(r, u)

\* DELETE /bookings/<bid>/ by u: get_object() looks in get_queryset()
CancelAs(r, u, bid) ==
    /\ IF \E b \in Visible(u) : b.id = bid
       THEN CancelFetch(r, bid)
       ELSE /\ Free(r)
            /\ req' = [req EXCEPT ![r] = [Done("cancel", "NotFound") EXCEPT !.bid = bid]]
            /\ UNCHANGED <<now, users, sessions, bookings, nextSession, nextBooking, admin>>
    /\ Calls(r, u)

\* PATCH /bookings/<bid>/ {status} by u arrives; get_object() reads the row
StatusFetch(r, u, bid) ==
    /\ Free(r)
    /\ admin < MaxAdmin
    /\ admin' = admin + 1
    /\ req' = [req EXCEPT ![r] =
         IF \E b \in Visible(u) : b.id = bid
         THEN LET b == CHOOSE x \in Visible(u) : x.id = bid
              IN [Idle EXCEPT !.kind = "bstatus", !.pc = "save", !.bid = bid,
                              !.player = b.player, !.sid = b.session]
         ELSE [Done("bstatus", "NotFound") EXCEPT !.bid = bid]]
    /\ Calls(r, u)
    /\ UNCHANGED <<now, users, sessions, bookings, nextSession, nextBooking>>

\* serializer.save(): the row read, with the new status, is written back
StatusSave(r, st) ==
    /\ req[r].kind = "bstatus" /\ req[r].pc = "save"
    /\ bookings' = {b \in bookings : b.id # req[r].bid}
            \cup {[Booking(req[r].bid, req[r].player, req[r].sid) EXCEPT !.status = st]}
    /\ req' = [req EXCEPT ![r] = Done("bstatus", "ok")]
    /\ UNCHANGED <<now, users, sessions, nextSession, nextBooking, admin, callers>>

\* one session, coached or not; a bundle and a membership, either fresh or
\* exhausted and frozen; one request at a time
AccessInit ==
    /\ now = 0
    /\ users = DOMAIN Accounts
    /\ \E cap \in 1..MaxCap, date \in 0..MaxTime, coach \in Coaches \cup {0} :
          sessions = Save(<< >>, RaceSession, [Session(cap, cap, date) EXCEPT !.coach = coach])
    /\ bookings = {}
    /\ nextSession = RaceSession + 1
    /\ nextBooking = 1
    /\ admin = 0
    /\ req = [r \in {Client} |-> Idle]
    /\ \E spent \in BOOLEAN :
          /\ bundles = Save(<< >>, BundleId, Bundle(1, IF spent THEN 1 ELSE 0, MaxDay))
          /\ memberships = Save(<< >>, MemberId, Membership(~spent, IF spent THEN 1 ELSE 0))
    /\ ops = << >>
    /\ granted = 0
    /\ trail = NoTrail
    /\ discounts = {}
    /\ applied = NoQuote
    /\ callers = [r \in {Client} |-> 0]

\* a booking request that also spends a credit of the bundle
ElsewhereSpends ==
    /\ bundles' = [b \in DOMAIN bundles |->
          [bundles[b] EXCEPT !.sessions_used =
              IF @ < bundles[b].sessions_included THEN @ + 1 ELSE @]]
    /\ UNCHANGED <<memberships, ops, granted, trail, counter>>

\* a booking request leaves the other tables alone
Elsewhere == UNCHANGED <<ledger, trail, counter>>

AccessNext ==
    \/ Tick /\ UNCHANGED callers /\ Elsewhere
    \/ \E u \in DOMAIN Accounts, sid \in SessionIds :
          Admit /\ BookAs(Client, u, sid) /\ Elsewhere
    \/ \E u \in DOMAIN Accounts, p \in DOMAIN Accounts, sid \in SessionIds :
          Admit /\ CreateAs(Client, u, p, sid) /\ Elsewhere
    \/ BookValidate(Client) /\ UNCHANGED callers /\ Elsewhere
    \/ BookInsert(Client) /\ UNCHANGED callers /\ Elsewhere
    \/ BookSave(Client) /\ UNCHANGED callers /\ Elsewhere
    \/ \E u \in DOMAIN Accounts, bid \in BookingIds : CancelAs(Client, u, bid) /\ Elsewhere
    \/ CancelSave(Client) /\ UNCHANGED callers /\ Elsewhere
    \/ CancelDelete(Client) /\ UNCHANGED callers /\ Elsewhere
    \/ \E u \in DOMAIN Accounts, bid \in BookingIds : StatusFetch(Client, u, bid) /\ Elsewhere
    \/ \E st \in Statuses : StatusSave(Client, st) /\ Elsewhere

SpecAccess == AccessInit /\ [][AccessNext]_vars

\* ---- claims

\* C1: in every reachable state every session has 0 <= spots_left <= capacity
C1_SpotsWithinCapacity ==
    \A s \in DOMAIN sessions :
        0 <= sessions[s].spots_left /\ sessions[s].spots_left <= sessions[s].capacity

\* C2: in every reachable state spots_left of every session is its capacity
\* minus the number of its booking rows
C2_SpotsMatchBookings ==
    \A s \in DOMAIN sessions :
        sessions[s].spots_left = sessions[s].capacity - Cardinality(BookingsOf(s))

\* the requests of the race that ended with a given response
RaceEnded(err) == {r \in DOMAIN req : req[r] = Done("book", err)}

\* C3: once the RaceN concurrent requests of the race have answered, exactly
\* capacity of them succeeded, the others failed with SessionFull, and
\* spots_left is 0
C3_RaceFillsExactly ==
    (\A r \in DOMAIN req : req[r].pc = "done") =>
        /\ Cardinality(RaceEnded("ok")) = sessions[RaceSession].capacity
        /\ Cardinality(RaceEnded("SessionFull")) = RaceN - sessions[RaceSession].capacity
        /\ sessions[RaceSession].spots_left = 0

\* C4: in every reachable state no two booking rows have the same player and
\* session
C4_OneBookingPerPair ==
    \A b1, b2 \in bookings :
        (b1.player = b2.player /\ b1.session = b2.session) => b1.id = b2.id

\* request r takes a step of handler kind
Steps(r, kind) == req[r].kind = kind /\ req'[r] # req[r]
\* request r runs validate() of create_booking
Validates(r) == Steps(r, "book") /\ req[r].pc = "validate"
\* request r arrives as a create_booking and loads its session
Loads(r) == Free(r) /\ req'[r].kind = "book" /\ req'[r].pc = "validate"
\* a booking row of the player on the session exists
Holds(player, sid) == \E b \in bookings : b.player = player /\ b.session = sid

\* C5: every step of a create_booking request that writes the database adds
\* one booking row and lowers spots_left of its session by 1, together
C5_BookAtomic ==
    [][\A r \in DOMAIN req :
        (Steps(r, "book") /\ (bookings' # bookings \/ sessions' # sessions)) =>
            /\ Cardinality(bookings') = Cardinality(bookings) + 1
            /\ req[r].sid \in DOMAIN sessions /\ req[r].sid \in DOMAIN sessions'
            /\ sessions'[req[r].sid].spots_left = sessions[req[r].sid].spots_left - 1]_vars

\* C6: every step of a cancel_booking request that writes the database
\* deletes the booking row and raises spots_left of its session by 1, together
C6_CancelAtomic ==
    [][\A r \in DOMAIN req :
        (Steps(r, "cancel") /\ (bookings' # bookings \/ sessions' # sessions)) =>
            /\ bookings' = {b \in bookings : b.id # req[r].bid}
            /\ bookings' # bookings
            /\ req[r].sid \in DOMAIN sessions /\ req[r].sid \in DOMAIN sessions'
            /\ sessions'[req[r].sid].spots_left = sessions[req[r].sid].spots_left + 1]_vars

\* C7: the release of a cancel_booking never leaves spots_left of the session
\* above its capacity
C7_ReleaseCapped ==
    [][\A r \in DOMAIN req :
        (Steps(r, "cancel") /\ sessions' # sessions) =>
            sessions'[req[r].sid].spots_left <= sessions'[req[r].sid].capacity]_vars

\* C8: a create_booking request loads spots_left as the session row holds it,
\* and when the loaded spots_left is <= 0 it answers SessionFull, adds no
\* booking row and leaves every session row as it is
C8_SessionFull ==
    [][\A r \in DOMAIN req :
        /\ Loads(r) => req'[r].loc = sessions[req'[r].sid]
        /\ (Validates(r) /\ req[r].loc.spots_left <= 0) =>
              /\ req'[r] = Done("book", "SessionFull")
              /\ bookings' = bookings
              /\ sessions' = sessions]_vars

\* a create_booking request has answered SessionFull
C8_Witness == \E r \in DOMAIN req : req[r] = Done("book", "SessionFull")

\* C9: a create_booking request whose session has spots left and whose player
\* holds a booking row on that session answers DuplicateBooking, adds no
\* booking row and leaves every session row as it is
C9_Duplicate ==
    [][\A r \in DOMAIN req :
        (Validates(r) /\ req[r].loc.spots_left > 0 /\ Holds(req[r].player, req[r].sid)) =>
            /\ req'[r] = Done("book", "DuplicateBooking")
            /\ bookings' = bookings
            /\ sessions' = sessions]_vars

\* a create_booking request has answered DuplicateBooking
C9_Witness == \E r \in DOMAIN req : req[r] = Done("book", "DuplicateBooking")

\* C10 as stated: a create_booking request answers PastSession exactly when
\* the date of its session is before now
C10_PastExactly ==
    [][\A r \in DOMAIN req :
        Validates(r) =>
            (req'[r] = Done("book", "PastSession") <=> req[r].loc.date < now)]_vars

\* C10 amended: a create_booking request loads the date as the session row
\* holds it; it answers PastSession only when that date is before now, and then
\* adds no booking row and leaves every session row as it is; when the session
\* has spots left and the player holds no booking on it, it answers PastSession
\* exactly when the date is before now, and goes on to book otherwise
C10_PastSession ==
    [][\A r \in DOMAIN req :
        /\ Loads(r) => req'[r].loc.date = sessions[req'[r].sid].date
        /\ Validates(r) =>
              /\ req'[r] = Done("book", "PastSession") =>
                    /\ req[r].loc.date < now
                    /\ bookings' = bookings
                    /\ sessions' = sessions
              /\ (req[r].loc.spots_left > 0 /\ ~Holds(req[r].player, req[r].sid)) =>
                    /\ req[r].loc.date < now => req'[r] = Done("book", "PastSession")
                    /\ req[r].loc.date >= now => req'[r].pc = "insert"]_vars

\* a create_booking request has answered PastSession
C10_Witness == \E r \in DOMAIN req : req[r] = Done("book", "PastSession")

\* C11: in a sequential run on a session of capacity 1 that has not passed,
\* A's booking succeeds and leaves no spot, B's booking then fails with
\* SessionFull, A's cancel gives the spot back and B's second booking
\* succeeds; and whenever a successful create_booking is followed by the
\* cancel of that booking, spots_left and the booking rows are what they were
\* before the create
C11_RoundTrip ==
    LET rt == trail.rt
        s == trail.scn
        answer == req[Client]
    IN /\ (rt.phase = "cancel" /\ answer.pc = "done") =>
            /\ answer = Done("cancel", "ok")
            /\ sessions[rt.sid].spots_left = rt.spots
            /\ bookings = rt.rows
       /\ (s.step > 0 /\ answer.pc = "done" /\ sessions[s.sid].date >= now) =>
            /\ s.step = 1 => /\ answer = Done("book", "ok")
                             /\ sessions[s.sid].spots_left = 0
                             /\ BookingsOf(s.sid) = {Booking(s.bid, s.a, s.sid)}
            /\ s.step = 2 => /\ answer = Done("book", "SessionFull")
                             /\ sessions[s.sid].spots_left = 0
                             /\ BookingsOf(s.sid) = {Booking(s.bid, s.a, s.sid)}
            /\ s.step = 3 => /\ answer = Done("cancel", "ok")
                             /\ sessions[s.sid].spots_left = 1
                             /\ BookingsOf(s.sid) = {}
            /\ s.step = 4 => /\ answer = Done("book", "ok")
                             /\ sessions[s.sid].spots_left = 0
                             /\ \E b \in bookings : BookingsOf(s.sid) = {b} /\ b.player = s.b

\* the capacity-1 scenario has run to B's second booking
C11_Witness ==
    /\ trail.scn.step = 4 /\ req[Client] = Done("book", "ok")
    /\ sessions[trail.scn.sid].date >= now

\* a use_credit request takes its check step; a use_credit request arrives
CreditChecks(r) == ops[r].kind = "credit" /\ ops[r].pc = "check" /\ ops'[r] # ops[r]
CreditLoads(r) == OpFree(r) /\ ops'[r].kind = "credit" /\ ops'[r].pc = "check"

\* C12: a use_credit request checks the bundle row as it read it on arrival;
\* when that row has credits_left <= 0 the request answers NoCreditsRemaining,
\* whatever the expiry date, and the bundle row is not written
C12_NoCredits ==
    [][\A r \in DOMAIN ops :
         /\ CreditLoads(r) => ops'[r].loc = bundles[ops'[r].id]
         /\ (CreditChecks(r)
               /\ ops[r].loc.sessions_included - ops[r].loc.sessions_used <= 0) =>
              /\ ops'[r].pc = "done" /\ ops'[r].err = "NoCreditsRemaining"
              /\ bundles' = bundles]_vars

\* NoCreditsRemaining was answered for a bundle that expired before the run
C12_Witness ==
    \E r \in DOMAIN ops :
        /\ ops[r].kind = "credit" /\ ops[r].pc = "done"
        /\ ops[r].err = "NoCreditsRemaining"
        /\ ops[r].loc.expiry_date < 0

\* C13: with credits_left > 0 in the row it read, a use_credit request
\* answers BundleExpired exactly when expiry_date < today, and then the
\* bundle row is not written
C13_Expired ==
    [][\A r \in DOMAIN ops :
         (CreditChecks(r)
           /\ ops[r].loc.sessions_included - ops[r].loc.sessions_used > 0) =>
              /\ (ops'[r].err = "BundleExpired") <=> (ops[r].loc.expiry_date < Today)
              /\ (ops'[r].err = "BundleExpired") =>
                    (ops'[r].pc = "done" /\ bundles' = bundles)]_vars

\* BundleExpired was answered for a bundle that had credits
C13_Witness ==
    \E r \in DOMAIN ops :
        /\ ops[r].kind = "credit" /\ ops[r].pc = "done"
        /\ ops[r].err = "BundleExpired"
        /\ ops[r].loc.sessions_included - ops[r].loc.sessions_used > 0

\* a request in flight takes a step; its copy of the row stays as it was read
Moves(r) == ops[r].pc \in {"check", "save"} /\ ops'[r] # ops[r]

\* C14: a use_credit request that reaches its write answers success; the write
\* leaves the bundle row equal to the row the request read on arrival with
\* sessions_used raised by exactly 1, touches no other row, and the response
\* carries sessions_included minus the new sessions_used
C14_UseCredit ==
    [][\A r \in DOMAIN ops :
         /\ CreditLoads(r) => ops'[r].loc = bundles[ops'[r].id]
         /\ (Moves(r) /\ ops[r].kind = "credit") => ops'[r].loc = ops[r].loc
         /\ (Moves(r) /\ ops[r].kind = "credit" /\ ops[r].pc = "save") =>
              /\ ops'[r].pc = "done" /\ ops'[r].err = "ok"
              /\ bundles'[ops[r].id] =
                    [ops[r].loc EXCEPT !.sessions_used = ops[r].loc.sessions_used + 1]
              /\ \A k \in DOMAIN bundles \ {ops[r].id} : bundles'[k] = bundles[k]
              /\ ops'[r].out = bundles'[ops[r].id].sessions_included
                                  - bundles'[ops[r].id].sessions_used]_vars

\* a use_credit request succeeded and the bundle row holds one more than the
\* request read
C14_Witness ==
    \E r \in DOMAIN ops :
        /\ ops[r].kind = "credit" /\ ops[r].pc = "done" /\ ops[r].err = "ok"
        /\ bundles[ops[r].id].sessions_used = ops[r].loc.sessions_used + 1
        /\ ops[r].out = ops[r].loc.sessions_included - ops[r].loc.sessions_used - 1

\* C15: no bundle ever has credits_left below 0
C15_CreditsNotNegative ==
    \A id \in DOMAIN bundles :
        bundles[id].sessions_included - bundles[id].sessions_used >= 0

\* a use_credit request succeeded and the bundle has no credit left
C15_Witness ==
    \E r \in DOMAIN ops :
        /\ ops[r].kind = "credit" /\ ops[r].pc = "done" /\ ops[r].err = "ok"
        /\ bundles[ops[r].id].sessions_included = bundles[ops[r].id].sessions_used

CreditEnded(err) == {r \in DOMAIN ops : ops[r].pc = "done" /\ ops[r].err = err}

\* C16: once the RaceN concurrent use_credit requests on a bundle with M
\* credits (M < RaceN, none used before) have answered, exactly M succeeded
\* and sessions_used is M
C16_RaceConsumesExactly ==
    (\A r \in DOMAIN ops : ops[r].pc = "done") =>
        /\ Cardinality(CreditEnded("ok")) = bundles[BundleId].sessions_included
        /\ bundles[BundleId].sessions_used = bundles[BundleId].sessions_included

\* a freeze request takes its check step; a freeze request arrives
FreezeChecks(r) == ops[r].kind = "freeze" /\ ops[r].pc = "check" /\ ops'[r] # ops[r]
FreezeLoads(r) == OpFree(r) /\ ops'[r].kind = "freeze" /\ ops'[r].pc = "check"

\* C17: a freeze request checks the membership row as it read it on arrival;
\* when that row has freeze_count >= 3 the request answers FreezeLimitReached
\* and the membership row (freeze_count, active) is not written
C17_FreezeLimit ==
    [][\A r \in DOMAIN ops :
         /\ FreezeLoads(r) => ops'[r].loc = memberships[ops'[r].id]
         /\ (FreezeChecks(r) /\ ops[r].loc.freeze_count >= 3) =>
              /\ ops'[r].pc = "done" /\ ops'[r].err = "FreezeLimitReached"
              /\ memberships' = memberships]_vars

\* FreezeLimitReached was answered
C17_Witness ==
    \E r \in DOMAIN ops :
        /\ ops[r].kind = "freeze" /\ ops[r].pc = "done"
        /\ ops[r].err = "FreezeLimitReached"

\* C18: for a membership created with freeze_count 0, under freeze and
\* unfreeze requests freeze_count never exceeds 3 and at most 3 freeze
\* requests have answered success
C18_FreezeBounded ==
    /\ \A id \in DOMAIN memberships : memberships[id].freeze_count <= 3
    /\ granted <= 3

\* C19: a freeze request that read freeze_count < 3 goes on to its write
\* whether the row it read was active or not; the write answers success and
\* leaves the membership row inactive with freeze_count exactly 1 above the
\* value the request read on arrival
C19_FreezeCounts ==
    [][\A r \in DOMAIN ops :
         /\ FreezeLoads(r) => ops'[r].loc = memberships[ops'[r].id]
         /\ (Moves(r) /\ ops[r].kind = "freeze") => ops'[r].loc = ops[r].loc
         /\ (FreezeChecks(r) /\ ops[r].loc.freeze_count < 3) => ops'[r].pc = "save"
         /\ (Moves(r) /\ ops[r].kind = "freeze" /\ ops[r].pc = "save") =>
              /\ ops'[r].pc = "done" /\ ops'[r].err = "ok"
              /\ memberships'[ops[r].id] =
                    [active |-> FALSE, freeze_count |-> ops[r].loc.freeze_count + 1]
              /\ ops'[r].out = ops[r].loc.freeze_count + 1]_vars

\* a freeze succeeded on a membership that was already frozen
C19_Witness ==
    \E r \in DOMAIN ops :
        /\ ops[r].kind = "freeze" /\ ops[r].pc = "done" /\ ops[r].err = "ok"
        /\ ~ops[r].loc.active
        /\ memberships[ops[r].id].freeze_count = ops[r].loc.freeze_count + 1

\* C20: an unfreeze request goes to its write whatever row it read (active or
\* not, any freeze_count); the write answers success and leaves the
\* membership row active with the freeze_count the request read on arrival,
\* so an unfreeze that read an active row writes the row it read
C20_Unfreeze ==
    [][\A r \in DOMAIN ops :
         /\ (OpFree(r) /\ ops'[r].kind = "unfreeze" /\ ops'[r].pc # "done") =>
              /\ ops'[r].pc = "save"
              /\ ops'[r].loc = memberships[ops'[r].id]
         /\ (Moves(r) /\ ops[r].kind = "unfreeze") =>
              /\ ops'[r].loc = ops[r].loc
              /\ ops'[r].pc = "done" /\ ops'[r].err = "ok"
              /\ memberships'[ops[r].id] =
                    [active |-> TRUE, freeze_count |-> ops[r].loc.freeze_count]
              /\ ops[r].loc.active => memberships'[ops[r].id] = ops[r].loc]_vars

\* an unfreeze succeeded on a frozen membership with freeze_count 3
C20_Witness ==
    \E r \in DOMAIN ops :
        /\ ops[r].kind = "unfreeze" /\ ops[r].pc = "done" /\ ops[r].err = "ok"
        /\ ~ops[r].loc.active /\ ops[r].loc.freeze_count = 3
        /\ memberships[ops[r].id] = [active |-> TRUE, freeze_count |-> 3]

\* a request to /discounts/apply/ is answered
Applies == applied' # applied
Succeeded(quote) == quote.errors = {} /\ quote.raised = "none"

\* C21: a request to apply a code succeeds exactly when an active discount
\* matches the code ignoring case and the amount is above 0, it fails with
\* InvalidCode and InvalidAmount otherwise, and it changes no discount
C21_ApplyIff ==
    [][Applies =>
         LET match == \E d \in discounts :
                          d.active /\ Upper(d.code) = Upper(applied'.code)
         IN /\ Succeeded(applied') <=> (match /\ applied'.amount > 0)
            /\ ("InvalidCode" \in applied'.errors) <=> ~match
            /\ ("InvalidAmount" \in applied'.errors) <=> (applied'.amount <= 0)
            /\ discounts' = discounts]_vars

\* C22: a request to apply an active code to an amount above 0 is answered
\* with discount_amount = amount * percentage / 100 and final_amount =
\* amount - discount_amount, exact Decimals
C22_ApplyAmounts ==
    [][Applies =>
         \A d \in discounts :
             (d.active /\ Upper(d.code) = Upper(applied'.code) /\ applied'.amount > 0) =>
                 /\ Succeeded(applied')
                 /\ applied'.discount_amount.type = "Decimal"
                 /\ applied'.discount_amount.num * 100 * 100 =
                        applied'.amount * d.percentage * applied'.discount_amount.den
                 /\ applied'.final_amount =
                        Minus(Decimal(applied'.amount), applied'.discount_amount)]_vars

\* request r arrives as a cancel_booking
CancelArrives(r) ==
    /\ Free(r) /\ req'[r].kind = "cancel"
    /\ req'[r] # req[r] \/ callers'[r] # callers[r]
\* the bookings the roles may cancel: admin and staff any, a coach those of the
\* sessions they coach, a player or child their own, anybody else none
MayCancel(u, b) ==
    \/ Accounts[u].role = "admin"
    \/ Accounts[u].is_staff
    \/ Accounts[u].role = "coach" /\ sessions[b.session].coach = u
    \/ Accounts[u].role \in {"player", "child"} /\ b.player = u

\* C23 as stated: a cancel_booking request for a booking row that exists is
\* accepted, whoever sends it
C23_CancelAlways ==
    [][\A r \in DOMAIN req :
        (CancelArrives(r) /\ \E b \in bookings : b.id = req'[r].bid) =>
            req'[r].pc = "save"]_vars

\* C23 amended: a cancel_booking request for a booking row that exists and that
\* its caller may see is accepted, whatever the date and spots_left of the
\* session and the status of the booking, and once accepted it releases the
\* spot, deletes the row and answers ok without any check
C23_CancelVisible ==
    [][\A r \in DOMAIN req :
        /\ (CancelArrives(r)
              /\ \E b \in bookings : b.id = req'[r].bid /\ MayCancel(callers'[r], b)) =>
                 /\ req'[r].pc = "save"
                 /\ req'[r].err = "none"
        /\ (Steps(r, "cancel") /\ req[r].pc = "save") =>
              /\ req'[r].pc = "delete"
              /\ req'[r].err = "none"
        /\ (Steps(r, "cancel") /\ req[r].pc = "delete") =>
              /\ req'[r] = Done("cancel", "ok")
              /\ \A b \in bookings' : b.id # req[r].bid]_vars

\* a cancel_booking of a booking marked cancelled, on a full session of the
\* past, has released the spot and is about to delete the row
C23_Witness ==
    \E r \in DOMAIN req, b \in bookings :
        /\ req[r].kind = "cancel" /\ req[r].pc = "delete" /\ req[r].bid = b.id
        /\ b.status = "cancelled"
        /\ req[r].loc.date < now
        /\ req[r].loc.spots_left = 0

\* C24: every booking row that appears has the caller of the request that
\* inserted it as its player
C24_PlayerIsCaller ==
    [][\A b \in bookings' :
        (\A x \in bookings : x.id # b.id) =>
            \E r \in DOMAIN req :
                /\ req[r].kind = "book" /\ req[r].pc = "insert"
                /\ b.player = callers[r]]_vars

\* C25: when several checks of a create_booking request fail at once it
\* answers with the first in the order fullness, duplicate, past date, and
\* with one failure only
C25_FirstFailure ==
    [][\A r \in DOMAIN req :
        Validates(r) =>
            LET full == req[r].loc.spots_left <= 0
                dup == Holds(req[r].player, req[r].sid)
                past == req[r].loc.date < now
            IN /\ full => req'[r].err = "SessionFull"
               /\ (~full /\ dup) => req'[r].err = "DuplicateBooking"
               /\ (~full /\ ~dup /\ past) => req'[r].err = "PastSession"
               /\ (full \/ dup \/ past) <=> req'[r].pc = "done"]_vars

\* a create_booking request is being validated while its session is full and
\* past and its player already holds a booking on it
C25_Witness ==
    \E r \in DOMAIN req :
        /\ req[r].kind = "book" /\ req[r].pc = "validate"
        /\ req[r].loc.spots_left <= 0
        /\ Holds(req[r].player, req[r].sid)
        /\ req[r].loc.date < now

\* C26: spots_left of a session row changes only in a step of a create_booking
\* request on that session, by -1, or of a cancel_booking request on it, by
\* +1; a step of a session update or of a booking update changes no spots_left
C26_SpotsFrame ==
    [][\A s \in DOMAIN sessions \cap DOMAIN sessions' :
        sessions'[s].spots_left # sessions[s].spots_left =>
            \E r \in DOMAIN req :
                /\ req[r].sid = s
                /\ \/ /\ Steps(r, "book")
                      /\ sessions'[s].spots_left = sessions[s].spots_left - 1
                   \/ /\ Steps(r, "cancel")
                      /\ sessions'[s].spots_left = sessions[s].spots_left + 1]_vars

\* C28: the capacity of a session row is within MinCapacity..MaxCapacity when
\* the row appears and no step changes it afterwards
C28_CapacityFixed ==
    [][\A s \in DOMAIN sessions' :
        IF s \in DOMAIN sessions
        THEN sessions'[s].capacity = sessions[s].capacity
        ELSE /\ MinCapacity <= sessions'[s].capacity
             /\ sessions'[s].capacity <= MaxCapacity]_vars

\* C27: sessions_used of a bundle row changes only in the save of a use_credit
\* request on that bundle, and sessions_included of a bundle row never changes
C27_BundleFrame ==
    [][\A b \in DOMAIN bundles \cap DOMAIN bundles' :
        /\ bundles'[b].sessions_included = bundles[b].sessions_included
        /\ bundles'[b].sessions_used # bundles[b].sessions_used =>
              \E r \in DOMAIN ops :
                  /\ ops[r].kind = "credit" /\ ops[r].pc = "save" /\ ops[r].id = b
                  /\ ops'[r].pc = "done"]_vars

\* the bundle is exhausted and the membership is frozen
Spent ==
    /\ bundles[BundleId].sessions_used >= bundles[BundleId].sessions_included
    /\ ~memberships[MemberId].active

\* C29: no step of a create_booking or cancel_booking request changes a bundle
\* or a membership row, and a create_booking request on a session with spots
\* left, not yet booked by the player and not past, goes on to book also when
\* the bundle is exhausted and the membership frozen
C29_LedgerUntouched ==
    [][\A r \in DOMAIN req :
        /\ (Steps(r, "book") \/ Steps(r, "cancel") \/ Loads(r) \/ CancelArrives(r)) =>
              /\ bundles' = bundles
              /\ memberships' = memberships
        /\ (Validates(r) /\ Spent /\ req[r].loc.spots_left > 0
              /\ ~Holds(req[r].player, req[r].sid) /\ req[r].loc.date >= now) =>
                 req'[r].pc = "insert"
        /\ (Steps(r, "book") /\ req[r].pc = "save" /\ Spent) =>
              /\ req'[r] = Done("book", "ok")
              /\ Spent']_vars

\* a booking was made, and then cancelled, with the bundle exhausted and the
\* membership frozen
C29_Witness ==
    /\ Spent
    /\ nextBooking > 1
    /\ \E r \in DOMAIN req : req[r] = Done("cancel", "ok")

\* C30: a cancel_booking request is accepted only for a booking its caller may
\* cancel; any other answers NotFound and changes neither the booking rows nor
\* the session rows; and a booking row disappears only in the delete of a
\* request whose caller may cancel it
C30_CancelOwn ==
    [][/\ \A r \in DOMAIN req :
            CancelArrives(r) =>
                IF \E b \in bookings : b.id = req'[r].bid /\ MayCancel(callers'[r], b)
                THEN req'[r].pc = "save"
                ELSE /\ req'[r].pc = "done"
                     /\ req'[r].err = "NotFound"
                     /\ bookings' = bookings
                     /\ sessions' = sessions
       /\ \A b \in bookings :
            (\A x \in bookings' : x.id # b.id) =>
                \E r \in DOMAIN req :
                    /\ req[r].kind = "cancel" /\ req[r].pc = "delete"
                    /\ req[r].bid = b.id
                    /\ MayCancel(callers[r], b)]_vars

\* a player asked to cancel a booking that exists and is not theirs, and got
\* NotFound
C30_Witness ==
    \E r \in DOMAIN req, b \in bookings :
        /\ req[r] = [Done("cancel", "NotFound") EXCEPT !.bid = b.id]
        /\ Accounts[callers[r]].role = "player"
        /\ b.player # callers[r]


====
